---- MODULE Spec2Model ----
(***************************************************************************)
(* A model of binjs-ts: the grammar recoverer (src/src/grammar.ts), the    *)
(* byte writer and the TreeRePair encoder (src/src/encode_binast.ts) and   *)
(* the TreeRePair decoder (src/unnamed/part_000).                          *)
(*                                                                         *)
(* Values of the AST are tagged pairs <<tag, payload>>:                    *)
(*   <<"null",0>>  <<"undefined",0>>  <<"bool",b>>  <<"num",bits>>         *)
(*   <<"str",units>>  <<"list",seq>>  <<"node",[kind,names,vals]>>         *)
(* A number is the little-endian 8-byte pattern of its double, a string    *)
(* the sequence of its UTF-16 code units, a node its constructor name      *)
(* with its own property names in insertion order and their values.        *)
(***************************************************************************)
EXTENDS Integers, Sequences, FiniteSets, TLC

VARIABLES
    pc,         \* position of the run
    script,     \* the input AST (Encoder.script, or the node given to visit)
    grammar,    \* rules: kind -> sorted property names, in insertion order
    todo,       \* the values visit has still to walk, next first
    err,        \* the error that ended the encoder or the recoverer, "" if none
    vin,        \* writeVarUint: the argument, as 7-bit groups
    uval,       \* writeVarUint: the local uval (an int32 after the first shift)
    vn,         \* writeVarUint: the local n
    out,        \* the bytes written to the sink, which the decoder reads
    priors,     \* FixedSizeBufStream.priors: the chunks that filled up
    priorSize,  \* FixedSizeBufStream.priorSize
    cur,        \* FixedSizeBufStream.cur: the chunk being filled
    curOffset,  \* FixedSizeBufStream.curOffset
    written,    \* the bytes given to the write calls of the stream so far
    sink,       \* what the last copyTo... call wrote to its target
    bytes_written,  \* what the last call on the stream returned
    tr_tree,    \* tr_grammar.tree: the start tree
    tr_rules,   \* tr_grammar.rules: nonterminal -> body, in insertion order
    dorder,     \* the digrams of the index, in the order they were inserted
    nparams,    \* the number of Parameter symbols created so far
    t_strings,  \* TreeRePairApplicator.t_strings, in insertion order
    t_numbers,  \* TreeRePairApplicator.t_numbers, in insertion order
    codes,      \* symbol_code_map: the symbols, the code of each its index - 1
    rpos,       \* the decoder's read position in the bytes
    dgrammar,   \* Decoder.grammar
    dec,        \* the decoder's tables once the header is read
    program,    \* Decoder.program
    derr        \* the error that ended the decoder, "" if none

svars == <<priors, priorSize, cur, curOffset, written, sink, bytes_written>>
wvars == <<vin, uval, vn, svars>>
evars == <<tr_tree, tr_rules, dorder, nparams, t_strings, t_numbers, codes>>
dvars == <<rpos, dgrammar, dec, program, derr>>
vars == <<pc, script, grammar, todo, err, vin, uval, vn, out,
          priors, priorSize, cur, curOffset, written, sink, bytes_written,
          tr_tree, tr_rules, dorder, nparams, t_strings, t_numbers, codes,
          rpos, dgrammar, dec, program, derr>>

\* ---------------------------------------------------------------- bounds
MaxGList == 3      \* longest statement list given to the grammar recoverer
MaxGroups == 5     \* most 7-bit groups of an argument of writeVarUint
MaxVarUintBytes == 12  \* bytes after which a run of writeVarUint is cut off
MaxList == 3       \* longest statement list of an AST given to the encoder
MaxReplayDepth == 8  \* nested meta-rule bodies after which replay_tree overflows the stack
MaxTokens == 3     \* most tree tokens of a byte stream made for the decoder
MaxTag == 12       \* largest tag of a byte stream made for the decoder
FIXED_SIZE == 3    \* the size of a chunk, 0x10000 in the program, scaled down
MaxArray == 4      \* longest array given to writeArray and writeUint8Array
MaxStreamBytes == 6  \* bytes after which a run of stream writes is cut off

\* ---------------------------------------------------------------- values
VNull == <<"null", 0>>
VUndef == <<"undefined", 0>>
VBool(b) == <<"bool", b>>
VNum(bits) == <<"num", bits>>
VStr(units) == <<"str", units>>
VList(elems) == <<"list", elems>>
VNode(kind, names, vals) == <<"node", [kind |-> kind, names |-> names, vals |-> vals]>>
NoValue == <<"none", 0>>
NoTree == [l |-> <<"none", 0>>, k |-> <<>>]
NoTables == [read |-> FALSE]

\* new Uint8Array(FIXED_SIZE)
NewChunk == [i \in 1..FIXED_SIZE |-> 0]

\* FixedSizeBufStream after its constructor, nothing copied yet
StreamNew ==
    /\ priors = <<>> /\ priorSize = 0 /\ cur = NewChunk /\ curOffset = 0
    /\ written = <<>> /\ sink = <<>> /\ bytes_written = 0

\* The state of the parts of the program a run does not use
WriterIdle == vin = <<>> /\ uval = 0 /\ vn = 0 /\ StreamNew
EncoderIdle ==
    /\ tr_tree = NoTree /\ tr_rules = <<>> /\ dorder = <<>> /\ nparams = 0
    /\ t_strings = <<>> /\ t_numbers = <<>> /\ codes = <<>>
DecoderIdle ==
    /\ rpos = 1 /\ dgrammar = <<>> /\ dec = NoTables /\ program = NoValue /\ derr = ""

IsList(v) == v[1] = "list"
IsNode(v) == v[1] = "node"

\* node[prop]: the value of own property prop, undefined when there is none
PropVal(node, prop) ==
    LET r == node[2]
        hits == {i \in 1..Len(r.names) : r.names[i] = prop}
    IN IF hits = {} THEN VUndef ELSE r.vals[CHOOSE i \in hits : TRUE]

\* All sequences over S of length at most n
SeqsUpTo(S, n) == UNION {[1..k -> S] : k \in 0..n}

\* ------------------------------------------------------- grammar recoverer
\* Property and kind names in code-unit order, the order of Array.prototype.sort
NameOrder == <<"directives", "expression", "items", "name", "statements", "type", "value">>
NameRank(n) == CHOOSE i \in 1..Len(NameOrder) : NameOrder[i] = n

RECURSIVE InsertName(_, _)
InsertName(n, s) ==
    IF s = <<>> THEN <<n>>
    ELSE IF NameRank(n) < NameRank(Head(s)) THEN <<n>> \o s
    ELSE <<Head(s)>> \o InsertName(n, Tail(s))

RECURSIVE SortNames(_)
SortNames(s) == IF s = <<>> THEN <<>> ELSE InsertName(Head(s), SortNames(Tail(s)))

FilterType(s) == SelectSeq(s, LAMBDA n : n # "type")

\* Object.getOwnPropertyNames(node).filter(name !== 'type').sort()
OwnProps(node) == SortNames(FilterType(node[2].names))

ShallowEqualsLengthOnly(xs, ys) == Len(xs) = Len(ys)

\* shallowEquals on two arrays: same length and === at every index
ShallowEquals(xs, ys) ==
    /\ Len(xs) = Len(ys)
    /\ \A i \in 1..Len(xs) : xs[i] = ys[i]

\* this.rules[kind]: the index of kind's rule, 0 when there is none
RuleIndex(rules, kind) ==
    LET hits == {i \in 1..Len(rules) : rules[i].kind = kind}
    IN IF hits = {} THEN 0 ELSE CHOOSE i \in hits : TRUE

HasRule(rules, kind) == RuleIndex(rules, kind) # 0
RuleProps(rules, kind) == rules[RuleIndex(rules, kind)].props

\* The body of visit for one typed node: check the shape or record it
VisitNode(node, rules) ==
    LET kind == node[2].kind
        props == OwnProps(node)
        i == RuleIndex(rules, kind)
    IN IF i # 0 /\ ~ShallowEquals(props, rules[i].props)
       THEN [rules |-> rules, err |-> "InconsistentShape", props |-> props]
       ELSE [rules |-> IF i = 0
                       THEN Append(rules, [kind |-> kind, props |-> props])
                       ELSE [rules EXCEPT ![i] = [kind |-> kind, props |-> props]],
             err |-> "", props |-> props]

\* One call of visit on the next value: a list hands on its elements, a typed
\* node is checked and hands on its property values, a primitive is passed.
VisitStep(work, rules) ==
    LET v == Head(work)
        rest == Tail(work)
    IN IF IsList(v)
       THEN [todo |-> v[2] \o rest, rules |-> rules, err |-> ""]
       ELSE IF IsNode(v)
       THEN LET r == VisitNode(v, rules)
            IN [todo |-> IF r.err # "" THEN work
                         ELSE [i \in 1..Len(r.props) |-> PropVal(v, r.props[i])] \o rest,
                rules |-> r.rules, err |-> r.err]
       ELSE [todo |-> rest, rules |-> rules, err |-> ""]

\* The whole recursive walk of visit
RECURSIVE VisitAll(_, _)
VisitAll(work, rules) ==
    IF work = <<>> THEN [rules |-> rules, err |-> ""]
    ELSE LET s == VisitStep(work, rules)
         IN IF s.err # "" THEN [rules |-> s.rules, err |-> s.err]
            ELSE VisitAll(s.todo, s.rules)

\* Inputs of the grammar recoverer: nodes of two kinds in several shapes
GShapes == {<<>>, <<"name">>, <<"value">>, <<"name", "value">>, <<"value", "name">>, <<"type", "name">>}
GKinds == {"IdentifierExpression", "LiteralNumericExpression"}
GLeaves == {VNode(k, s, [i \in 1..Len(s) |-> VNull]) : k \in GKinds, s \in GShapes}
GNested == {VNode("IdentifierExpression", <<"name">>, <<n>>) :
                n \in {VNode("LiteralNumericExpression", s, [i \in 1..Len(s) |-> VBool(TRUE)]) :
                          s \in {<<"value">>, <<"name">>}}}
GNodes == GLeaves \cup GNested
GInputs == {VNode("Script", <<"statements">>, <<VList(l)>>) : l \in SeqsUpTo(GNodes, MaxGList)}

GInit ==
    /\ pc = "visit"
    /\ script \in GInputs
    /\ grammar = <<>>
    /\ todo = <<script>>
    /\ err = ""
    /\ out = <<>>
    /\ WriterIdle /\ EncoderIdle /\ DecoderIdle

\* GrammarRecoverer.visit, one call at a time
GVisit ==
    /\ pc = "visit"
    /\ todo # <<>>
    /\ LET s == VisitStep(todo, grammar)
       IN /\ grammar' = s.rules
          /\ todo' = s.todo
          /\ err' = s.err
          /\ pc' = IF s.err # "" THEN "failed"
                   ELSE IF s.todo = <<>> THEN "visited" ELSE "visit"
    /\ UNCHANGED <<script, out, wvars, evars, dvars>>

GNext == GVisit

SpecGrammar == GInit /\ [][GNext]_vars

SeqRange(s) == {s[i] : i \in 1..Len(s)}
IsSortedNames(s) == \A i \in 1..(Len(s) - 1) : NameRank(s[i]) < NameRank(s[i + 1])
OwnNameSet(node) == SeqRange(node[2].names) \ {"type"}

\* C10: a call of visit on a typed node whose kind has no rule yet records the
\* node's own property names without `type`, sorted, and does not fail; on a
\* node whose kind has a rule it fails exactly when the node's names differ
\* from the recorded ones, and it leaves every recorded list as it was.
C10_InconsistentShape ==
    [][(pc = "visit" /\ todo # <<>> /\ IsNode(Head(todo))) =>
        LET node == Head(todo)
            kind == node[2].kind
        IN IF ~HasRule(grammar, kind)
           THEN /\ err' = ""
                /\ HasRule(grammar', kind)
                /\ IsSortedNames(RuleProps(grammar', kind))
                /\ SeqRange(RuleProps(grammar', kind)) = OwnNameSet(node)
                /\ Len(RuleProps(grammar', kind)) = Cardinality(OwnNameSet(node))
                /\ SubSeq(grammar', 1, Len(grammar)) = grammar
           ELSE /\ (err' # "") <=> (SeqRange(RuleProps(grammar, kind)) # OwnNameSet(node))
                /\ grammar' = grammar]_vars

\* A later node of a recorded kind with other property names has been refused
C10_Witness ==
    /\ pc = "failed" /\ err = "InconsistentShape"
    /\ HasRule(grammar, Head(todo)[2].kind)
    /\ Len(RuleProps(grammar, Head(todo)[2].kind)) = Len(OwnProps(Head(todo)))

\* ------------------------------------------------------------ writeVarUint
\* An argument v is the sequence of its 7-bit groups, least significant
\* first, without leading zero groups: v = 0 is the empty sequence.

\* ToInt32(v): the low 32 bits of v read as a two's complement integer, which
\* is what the operands of & and >>= are converted to
ToInt32(groups) ==
    LET g(i) == IF i <= Len(groups) THEN groups[i] ELSE 0
        low28 == g(1) + g(2) * 128 + g(3) * 16384 + g(4) * 2097152
        top4 == g(5) % 16
    IN IF top4 >= 8 THEN (top4 - 16) * 268435456 + low28
       ELSE top4 * 268435456 + low28

\* One turn of the do-while loop on the int32 cur: the byte written and the
\* value left in uval (>>= is the arithmetic shift)
VarUintShifted(u) == u \div 128
VarUintByte(u) == (u % 128) + (IF VarUintShifted(u) # 0 THEN 128 ELSE 0)

\* writeVarUint on a value below 2^31, all its turns
RECURSIVE WriteVarUint(_)
WriteVarUint(v) ==
    IF VarUintShifted(v) = 0 THEN <<VarUintByte(v)>>
    ELSE <<VarUintByte(v)>> \o WriteVarUint(VarUintShifted(v))

VDigits == {0, 1, 16, 127}
VInputs == {g \in SeqsUpTo(VDigits, MaxGroups) : g = <<>> \/ g[Len(g)] # 0}

VInit ==
    /\ pc = "varuint"
    /\ vin \in VInputs
    /\ uval = 0 /\ vn = 0 /\ out = <<>> /\ StreamNew
    /\ script = NoValue /\ grammar = <<>> /\ todo = <<>> /\ err = ""
    /\ EncoderIdle /\ DecoderIdle

\* EncodingWriter.writeVarUint, one turn of its loop
VarUintTurn ==
    /\ pc = "varuint"
    /\ vn < MaxVarUintBytes
    /\ LET u == IF vn = 0 THEN ToInt32(vin) ELSE uval
       IN /\ uval' = VarUintShifted(u)
          /\ out' = Append(out, VarUintByte(u))
          /\ vn' = vn + 1
          /\ pc' = IF VarUintShifted(u) # 0 THEN "varuint" ELSE "varuint_done"
    /\ UNCHANGED <<script, grammar, todo, err, vin, svars, evars, dvars>>

VNext == VarUintTurn

SpecVarUint == VInit /\ [][VNext]_vars

\* The encoding the format asks for: the groups of v, all but the last with
\* the high bit set; and the value its decoder reads back from bytes
VarUintExpected(groups) ==
    IF groups = <<>> THEN <<0>>
    ELSE [i \in 1..Len(groups) |-> groups[i] + (IF i < Len(groups) THEN 128 ELSE 0)]

RECURSIVE StripZeroGroups(_)
StripZeroGroups(g) ==
    IF g # <<>> /\ g[Len(g)] = 0 THEN StripZeroGroups(SubSeq(g, 1, Len(g) - 1)) ELSE g

VarUintReadBack(bytes) ==
    LET stop == {i \in 1..Len(bytes) : bytes[i] < 128}
        last == IF stop = {} THEN Len(bytes) ELSE CHOOSE i \in stop : \A j \in stop : i <= j
    IN StripZeroGroups([i \in 1..last |-> bytes[i] % 128])

\* C7: writeVarUint(v) ends after max(1, ceil(bitlen(v)/7)) bytes, which are
\* the 7-bit groups of v, least significant first, all but the last with the
\* high bit set; the decoder reads v back and the result is the byte count.
C7_VarUint ==
    /\ vn <= (IF vin = <<>> THEN 1 ELSE Len(vin))
    /\ pc = "varuint_done" =>
          /\ out = VarUintExpected(vin)
          /\ VarUintReadBack(out) = vin
          /\ vn = Len(out)

\* ------------------------------------------------------ ranked-tree symbols
\* A symbol is a tagged pair; a Terminal of a constant carries the Map key it
\* was interned under, a Nonterminal its number, rank and formals.
SymNil == <<"nil", 0>>
SymNull == <<"null", 0>>
SymCons == <<"cons", 0>>
SymFalse == <<"false", 0>>
SymTrue == <<"true", 0>>
SymUndefined == <<"undefined", 0>>
SymKind(kind) == <<"kind", kind>>
SymStr(units) == <<"str", units>>
SymNum(bits) == <<"num", bits>>
SymParam(i) == <<"param", i>>
SymNt(id, rank, formals) == <<"nt", [id |-> id, rank |-> rank, formals |-> formals]>>

\* tr.Node: a label and its children
TNode(l, k) == [l |-> l, k |-> k \o <<>>]
Leaf(l) == TNode(l, <<>>)

\* The rank a symbol was constructed with
SymRank(sym, g) ==
    CASE sym[1] = "cons" -> 2
      [] sym[1] = "kind" -> Len(RuleProps(g, sym[2]))
      [] sym[1] = "nt" -> sym[2].rank
      [] OTHER -> 0

\* ------------------------------------------------------------- doubles
D_PosZero == <<0, 0, 0, 0, 0, 0, 0, 0>>
D_NegZero == <<0, 0, 0, 0, 0, 0, 0, 128>>
D_One == <<0, 0, 0, 0, 0, 0, 240, 63>>
D_Two == <<0, 0, 0, 0, 0, 0, 0, 64>>
D_NaN == <<0, 0, 0, 0, 0, 0, 248, 127>>
D_NaNPayload == <<1, 0, 0, 0, 0, 0, 248, 127>>

IsNaN(bits) ==
    /\ bits[8] % 128 = 127 /\ bits[7] \div 16 = 15
    /\ (bits[7] % 16 # 0 \/ \E i \in 1..6 : bits[i] # 0)
IsZero(bits) == bits = D_PosZero \/ bits = D_NegZero

\* The comparison of Map keys
SameValueZero(a, b) == a = b \/ (IsZero(a) /\ IsZero(b)) \/ (IsNaN(a) /\ IsNaN(b))

\* ------------------------------------------------- TreeRePairApplicator
\* A Map of constants is the sequence of its entries [key, count]
\* Map.get on a number key
KeyIndex(tbl, key) ==
    LET hits == {i \in 1..Len(tbl) : SameValueZero(tbl[i].key, key)}
    IN IF hits = {} THEN 0 ELSE CHOOSE i \in hits : TRUE

\* Map.get on a string key
StrIndex(tbl, key) ==
    LET hits == {i \in 1..Len(tbl) : tbl[i].key = key}
    IN IF hits = {} THEN 0 ELSE CHOOSE i \in hits : TRUE

\* str(s): intern s on first sight, count the use; the new table
Str(s, tbl) ==
    LET i == StrIndex(tbl, s)
    IN IF i = 0 THEN Append(tbl, [key |-> s, count |-> 1])
       ELSE [tbl EXCEPT ![i].count = @ + 1]

\* num(n): intern n on first sight (Map.set stores -0 as +0), count the use
Num(n, tbl) ==
    LET i == KeyIndex(tbl, n)
    IN IF i = 0 THEN Append(tbl, [key |-> IF n = D_NegZero THEN D_PosZero ELSE n, count |-> 1])
       ELSE [tbl EXCEPT ![i].count = @ + 1]

\* build(node): the ranked tree of an AST value, threading the two Maps
RECURSIVE Build(_, _, _)
RECURSIVE BuildList(_, _, _, _, _)
RECURSIVE BuildKids(_, _, _, _, _, _)
Build(v, g, st) ==
    CASE v[1] = "bool" -> [tree |-> Leaf(IF v[2] THEN SymTrue ELSE SymFalse), st |-> st]
      [] v[1] = "null" -> [tree |-> Leaf(SymNull), st |-> st]
      [] v[1] = "undefined" -> [tree |-> Leaf(SymUndefined), st |-> st]
      [] v[1] = "str" ->
            [tree |-> Leaf(SymStr(v[2])), st |-> [st EXCEPT !.strs = Str(v[2], st.strs)]]
      [] v[1] = "num" ->
            LET tbl == Num(v[2], st.nums)
            IN [tree |-> Leaf(SymNum(tbl[KeyIndex(tbl, v[2])].key)),
                st |-> [st EXCEPT !.nums = tbl]]
      [] v[1] = "list" -> BuildList(v[2], Len(v[2]), Leaf(SymNil), g, st)
      [] OTHER ->
            IF ~HasRule(g, v[2].kind)
            THEN [tree |-> NoTree, st |-> [st EXCEPT !.err = "UnknownKind"]]
            ELSE BuildKids(v, RuleProps(g, v[2].kind), 1, <<>>, g, st)

BuildListFirstToLast(elems, i, result, g, st) ==
    IF i = 0 \/ st.err # "" THEN [tree |-> result, st |-> st]
    ELSE LET b == Build(elems[Len(elems) + 1 - i], g, st)
         IN BuildList(elems, i - 1, TNode(SymCons, <<b.tree, result>>), g, b.st)

\* for (i = node.length - 1; i >= 0; i--): the last element is built first
BuildList(elems, i, result, g, st) ==
    IF i = 0 \/ st.err # "" THEN [tree |-> result, st |-> st]
    ELSE LET b == Build(elems[i], g, st)
         IN BuildList(elems, i - 1, TNode(SymCons, <<b.tree, result>>), g, b.st)

\* for (property of grammar.rules.get(kind)): the children in grammar order
BuildKids(node, props, j, kids, g, st) ==
    IF j > Len(props) \/ st.err # ""
    THEN [tree |-> TNode(SymKind(node[2].kind), kids), st |-> st]
    ELSE LET b == Build(PropVal(node, props[j]), g, st)
         IN BuildKids(node, props, j + 1, Append(kids, b.tree), g, b.st)

\* ---------------------------------------------------------------- TreeRePair
\* A digram is <<parent label, child position, child label>>, positions from 1.
RECURSIVE ConcatFrom(_, _)
ConcatFrom(ss, i) == IF i > Len(ss) THEN <<>> ELSE ss[i] \o ConcatFrom(ss, i + 1)
ConcatAll(ss) == ConcatFrom(ss \o <<>>, 1)

\* The digrams of a tree in preorder, each edge once
RECURSIVE DigramSeq(_)
DigramSeq(t) ==
    ConcatAll([j \in 1..Len(t.k) |-> <<<<t.l, j, t.k[j].l>>>> \o DigramSeq(t.k[j])])

RECURSIVE SumFrom(_, _)
SumFrom(ns, i) == IF i > Len(ns) THEN 0 ELSE ns[i] + SumFrom(ns, i + 1)
SumAll(ns) == SumFrom(ns \o <<>>, 1)

IsOccurrence(t, d) == t.l = d[1] /\ d[2] <= Len(t.k) /\ t.k[d[2]].l = d[3]

RECURSIVE OccurrencesOverlapping(_, _, _)
OccurrencesOverlapping(t, d, used) ==
    (IF IsOccurrence(t, d) THEN 1 ELSE 0)
    + SumAll([j \in 1..Len(t.k) |-> OccurrencesOverlapping(t.k[j], d, FALSE)])

\* The occurrences of d that do not overlap, the earlier in preorder counted:
\* used says the node is the child of a counted occurrence
RECURSIVE Occurrences(_, _, _)
Occurrences(t, d, used) ==
    LET hit == IsOccurrence(t, d) /\ ~used
    IN (IF hit THEN 1 ELSE 0)
       + SumAll([j \in 1..Len(t.k) |-> Occurrences(t.k[j], d, hit /\ j = d[2])])

RECURSIVE AppendNew(_, _)
AppendNew(order, ds) ==
    IF ds = <<>> THEN order
    ELSE IF Head(ds) \in {order[i] : i \in 1..Len(order)} THEN AppendNew(order, Tail(ds))
    ELSE AppendNew(Append(order, Head(ds)), Tail(ds))

\* The index of the digram to replace: the highest count, at least 2, the
\* earliest inserted among equals; 0 when every digram occurs at most once
BestDigram(t, order) ==
    LET count == [i \in 1..Len(order) |-> Occurrences(t, order[i], FALSE)]
        good == {i \in 1..Len(order) : count[i] >= 2}
        best == {i \in good : \A j \in good : count[j] <= count[i]}
    IN IF good = {} THEN 0 ELSE CHOOSE i \in best : \A j \in best : i <= j

RemoveAt(s, i) == SubSeq(s, 1, i - 1) \o SubSeq(s, i + 1, Len(s))

\* Every occurrence of d replaced by a node labelled nt whose children are the
\* other children of the parent, then the children of the child
RECURSIVE ReplaceAll(_, _, _)
ReplaceAll(t, d, nt) ==
    IF IsOccurrence(t, d)
    THEN LET freed == RemoveAt(t.k, d[2]) \o t.k[d[2]].k
         IN TNode(nt, [j \in 1..Len(freed) |-> ReplaceAll(freed[j], d, nt)])
    ELSE TNode(t.l, [j \in 1..Len(t.k) |-> ReplaceAll(t.k[j], d, nt)])

\* The body of the production of nt for d: the parent over the child, the
\* formals in the places of their children
PatternBody(d, ra, rb, formals) ==
    LET child == TNode(d[3], [m \in 1..rb |-> Leaf(formals[ra - 1 + m])])
    IN TNode(d[1], [j \in 1..ra |->
                        IF j < d[2] THEN Leaf(formals[j])
                        ELSE IF j = d[2] THEN child
                        ELSE Leaf(formals[j - 1])])

\* The formals of a new nonterminal of the given rank: fresh parameters
FreshFormals(rank, made) == [m \in 1..rank |-> SymParam(made + m - 1)]

RECURSIVE TreeSize(_)
TreeSize(t) == 1 + SumAll([j \in 1..Len(t.k) |-> TreeSize(t.k[j])])

\* The labels of a tree in preorder (tr.pre_order)
RECURSIVE PreOrder(_)
PreOrder(t) == <<t.l>> \o ConcatAll([j \in 1..Len(t.k) |-> PreOrder(t.k[j])])

\* ------------------------------------------------------------ byte helpers
\* TextEncoder.encode: the UTF-8 bytes of code units below 0x800 and of
\* three-byte units that are no surrogates
Utf8Unit(u) ==
    IF u < 128 THEN <<u>>
    ELSE IF u < 2048 THEN <<192 + (u \div 64), 128 + (u % 64)>>
    ELSE <<224 + (u \div 4096), 128 + ((u \div 64) % 64), 128 + (u % 64)>>
Utf8Encode(units) == ConcatAll([i \in 1..Len(units) |-> Utf8Unit(units[i])])

\* The grammar on the wire. JSON.stringify lists the kinds in insertion order,
\* each with its property names in order; the listing below keeps both, a
\* kind and a name each written as its number in the tables.
KindNames == <<"Script", "Module", "ExpressionStatement", "IdentifierExpression",
               "LiteralNumericExpression">>
KindId(kind) == CHOOSE i \in 1..Len(KindNames) : KindNames[i] = kind
JsonStringify(g) ==
    ConcatAll([i \in 1..Len(g) |->
        <<KindId(g[i].kind), Len(g[i].props)>>
            \o [j \in 1..Len(g[i].props) |-> NameRank(g[i].props[j])]])

\* a[0] < b[0] on strings: the order of their code units
RECURSIVE StrLess(_, _)
StrLess(a, b) ==
    IF b = <<>> THEN FALSE
    ELSE IF a = <<>> THEN TRUE
    ELSE IF Head(a) # Head(b) THEN Head(a) < Head(b)
    ELSE StrLess(Tail(a), Tail(b))

RECURSIVE InsertString(_, _)
InsertString(sorted, x) ==
    IF sorted = <<>> THEN <<x>>
    ELSE IF StrLess(x.key, Head(sorted).key) THEN <<x>> \o sorted
    ELSE <<Head(sorted)>> \o InsertString(Tail(sorted), x)

\* Array.from(t_strings).sort(lexicographic)
RECURSIVE SortStrings(_)
SortStrings(tbl) ==
    IF tbl = <<>> THEN <<>>
    ELSE InsertString(SortStrings(SubSeq(tbl, 1, Len(tbl) - 1)), tbl[Len(tbl)])

RECURSIVE InsertByCountAscending(_, _)
InsertByCountAscending(sorted, x) ==
    IF sorted = <<>> THEN <<x>>
    ELSE IF Head(sorted).count <= x.count
    THEN <<Head(sorted)>> \o InsertByCountAscending(Tail(sorted), x)
    ELSE <<x>> \o sorted

RECURSIVE InsertByCount(_, _)
InsertByCount(sorted, x) ==
    IF sorted = <<>> THEN <<x>>
    ELSE IF Head(sorted).count >= x.count
    THEN <<Head(sorted)>> \o InsertByCount(Tail(sorted), x)
    ELSE <<x>> \o sorted

\* Array.from(t_numbers).sort((a, b) => b[1].count - a[1].count): by count,
\* the larger first, entries of equal count in the order of the Map
RECURSIVE SortNumbers(_)
SortNumbers(tbl) ==
    IF tbl = <<>> THEN <<>>
    ELSE InsertByCount(SortNumbers(SubSeq(tbl, 1, Len(tbl) - 1)), tbl[Len(tbl)])

\* writeFloat: the eight bytes of the double
WriteFloat(bits) == bits

\* ------------------------------------------------------------------ Encoder
\* The parameters of all productions, each once, in the order met
Parameters(rs) == AppendNew(<<>>, ConcatAll([i \in 1..Len(rs) |-> rs[i].nt[2].formals]))

\* meta_by_size: rank -> nonterminals, starting with an empty rank 0
RECURSIVE MetaBySize(_, _)
MetaBySize(rs, m) ==
    IF rs = <<>> THEN m
    ELSE LET nt == Head(rs).nt
             hits == {i \in 1..Len(m) : m[i].rank = nt[2].rank}
         IN MetaBySize(Tail(rs),
                IF hits = {} THEN Append(m, [rank |-> nt[2].rank, syms |-> <<nt>>])
                ELSE LET i == CHOOSE i \in hits : TRUE
                     IN [m EXCEPT ![i].syms = Append(@, nt)])

RECURSIVE InsertByRank(_, _)
InsertByRank(sorted, x) ==
    IF sorted = <<>> THEN <<x>>
    ELSE IF Head(sorted).rank <= x.rank THEN <<Head(sorted)>> \o InsertByRank(Tail(sorted), x)
    ELSE <<x>> \o sorted

\* Array.from(meta_by_size).sort((a, b) => a[0] - b[0])
RECURSIVE SortByRank(_)
SortByRank(m) ==
    IF m = <<>> THEN <<>>
    ELSE InsertByRank(SortByRank(SubSeq(m, 1, Len(m) - 1)), m[Len(m)])

SymbolsBySize(rs) == SortByRank(MetaBySize(rs, <<[rank |-> 0, syms |-> <<>>]>>))

RECURSIVE HistogramPlainDelta(_, _)
HistogramPlainDelta(sorted, last_rank) ==
    IF sorted = <<>> THEN <<>>
    ELSE LET e == Head(sorted)
         IN (IF e.rank # 0 THEN WriteVarUint(e.rank - last_rank) ELSE <<>>)
            \o WriteVarUint(Len(e.syms))
            \o HistogramPlainDelta(Tail(sorted), IF e.rank # 0 THEN e.rank ELSE last_rank)

\* The loop over symbols_by_size: for a rank other than 0 the delta from the
\* last rank less one, then the number of rules of the rank
RECURSIVE Histogram(_, _)
Histogram(sorted, last_rank) ==
    IF sorted = <<>> THEN <<>>
    ELSE LET e == Head(sorted)
         IN (IF e.rank # 0 THEN WriteVarUint(e.rank - last_rank - 1) ELSE <<>>)
            \o WriteVarUint(Len(e.syms))
            \o Histogram(Tail(sorted), IF e.rank # 0 THEN e.rank ELSE last_rank)

BuiltInsSwapped == <<SymNull, SymNil, SymCons, SymFalse, SymTrue, SymUndefined>>

\* The built-in symbols in the order of their add_symbol calls
BuiltIns == <<SymNil, SymNull, SymCons, SymFalse, SymTrue, SymUndefined>>

\* The calls of add_symbol in their order: the symbols, the code of each its
\* place in the sequence less one
SymbolCodes(rs, g, strs, nums) ==
    LET sorted == SymbolsBySize(rs)
        ss == SortStrings(strs)
        ns == SortNumbers(nums)
    IN Parameters(rs)
       \o BuiltIns
       \o ConcatAll([i \in 1..Len(sorted) |-> sorted[i].syms])
       \o [i \in 1..Len(g) |-> SymKind(g[i].kind)]
       \o [i \in 1..Len(ss) |-> SymStr(ss[i].key)]
       \o [i \in 1..Len(ns) |-> SymNum(ns[i].key)]

HasDuplicates(s) == \E i, j \in 1..Len(s) : i < j /\ s[i] = s[j]

\* symbol_code_map.get(label), -1 when the label has no code
CodeOf(cs, sym) ==
    LET hits == {i \in 1..Len(cs) : cs[i] = sym}
    IN IF hits = {} THEN -1 ELSE (CHOOSE i \in hits : TRUE) - 1

\* write_tree: the code of every label in preorder
WriteTree(t, cs) ==
    LET labels == PreOrder(t)
    IN ConcatAll([i \in 1..Len(labels) |-> WriteVarUint(CodeOf(cs, labels[i]))])

AbstractSyntaxBytesNumbersFirst(rs, start, g, strs, nums, cs) ==
    LET sorted == SymbolsBySize(rs)
        ss == SortStrings(strs)
        ns == SortNumbers(nums)
        bodies == ConcatAll([i \in 1..Len(sorted) |-> sorted[i].syms])
        body(nt) == rs[CHOOSE i \in 1..Len(rs) : rs[i].nt = nt].body
    IN WriteVarUint(Len(Parameters(rs)))
       \o WriteVarUint(6)
       \o WriteVarUint(Len(sorted) - 1)
       \o Histogram(sorted, 0)
       \o WriteVarUint(Len(ns))
       \o ConcatAll([i \in 1..Len(ns) |-> WriteFloat(ns[i].key)])
       \o WriteVarUint(Len(ss))
       \o ConcatAll([i \in 1..Len(ss) |-> WriteVarUint(Len(Utf8Encode(ss[i].key)))])
       \o ConcatAll([i \in 1..Len(ss) |-> Utf8Encode(ss[i].key)])
       \o ConcatAll([i \in 1..Len(bodies) |-> WriteTree(body(bodies[i]), cs)])
       \o WriteTree(start, cs)

\* The bytes encodeAbstractSyntax writes once the grammar is built
AbstractSyntaxBytes(rs, start, g, strs, nums, cs) ==
    LET sorted == SymbolsBySize(rs)
        ss == SortStrings(strs)
        ns == SortNumbers(nums)
        bodies == ConcatAll([i \in 1..Len(sorted) |-> sorted[i].syms])
        body(nt) == rs[CHOOSE i \in 1..Len(rs) : rs[i].nt = nt].body
    IN WriteVarUint(Len(Parameters(rs)))
       \o WriteVarUint(6)
       \o WriteVarUint(Len(sorted) - 1)
       \o Histogram(sorted, 0)
       \o WriteVarUint(Len(ss))
       \o ConcatAll([i \in 1..Len(ss) |-> WriteVarUint(Len(Utf8Encode(ss[i].key)))])
       \o ConcatAll([i \in 1..Len(ss) |-> Utf8Encode(ss[i].key)])
       \o WriteVarUint(Len(ns))
       \o ConcatAll([i \in 1..Len(ns) |-> WriteFloat(ns[i].key)])
       \o ConcatAll([i \in 1..Len(bodies) |-> WriteTree(body(bodies[i]), cs)])
       \o WriteTree(start, cs)

\* ------------------------------------------------------ FixedSizeBufStream
\* The stream as a record of its fields
ThisStream ==
    [priors |-> priors, priorSize |-> priorSize, cur |-> cur, curOffset |-> curOffset]

\* get size()
Size(s) == s.priorSize + s.curOffset

\* What a Uint8Array keeps of a number stored in it
ToUint8(b) == b % 256

WriteByteToPriorSizeKept(s, b) ==
    LET idx == s.curOffset
        stored == [s EXCEPT !.cur[idx + 1] = ToUint8(b), !.curOffset = idx + 1]
    IN IF stored.curOffset = Len(stored.cur)
       THEN [priors |-> Append(stored.priors, stored.cur),
             priorSize |-> stored.priorSize,
             cur |-> NewChunk,
             curOffset |-> 0]
       ELSE stored

\* writeByte(b): the stream after the call
WriteByteTo(s, b) ==
    LET idx == s.curOffset
        stored == [s EXCEPT !.cur[idx + 1] = ToUint8(b), !.curOffset = idx + 1]
    IN IF stored.curOffset = Len(stored.cur)
       THEN [priors |-> Append(stored.priors, stored.cur),
             priorSize |-> stored.priorSize + Len(stored.cur),
             cur |-> NewChunk,
             curOffset |-> 0]
       ELSE stored

\* for (const b of bs) this.writeByte(b)
RECURSIVE WriteBytesTo(_, _)
WriteBytesTo(s, bs) ==
    IF bs = <<>> THEN s ELSE WriteBytesTo(WriteByteTo(s, Head(bs)), Tail(bs))

\* The loop of copyToWritable and copyToWriteStream: the buffers handed to
\* the target, one after the other, and the count they add up to
CopyOf(s) ==
    LET last == IF s.curOffset # 0 THEN <<SubSeq(s.cur, 1, s.curOffset)>> ELSE <<>>
        buffers == s.priors \o last
    IN [emitted |-> ConcatAll(buffers),
        bytes_written |-> SumAll([i \in 1..Len(buffers) |-> Len(buffers[i])])]

StreamByteValues == {0, 255}
StreamArrays == SeqsUpTo(StreamByteValues, MaxArray)
StreamStrings == {<<>>, <<233>>, <<97, 233>>}

SInit ==
    /\ pc = "stream"
    /\ StreamNew
    /\ vin = <<>> /\ uval = 0 /\ vn = 0 /\ out = <<>>
    /\ script = NoValue /\ grammar = <<>> /\ todo = <<>> /\ err = ""
    /\ EncoderIdle /\ DecoderIdle

\* pc names the call of the stream that returned last
StreamWrites == {"writeByte", "writeArray", "writeUint8Array", "writeUtf8String"}
StreamCopies == {"copyToWritable", "copyToWriteStream"}
StreamOpen == pc \in {"stream"} \cup StreamWrites \cup StreamCopies

\* The fields of the stream after a write call that gave it the bytes bs
StreamWritten(s, bs, n, call) ==
    /\ priors' = s.priors
    /\ priorSize' = s.priorSize
    /\ cur' = s.cur
    /\ curOffset' = s.curOffset
    /\ written' = written \o bs
    /\ bytes_written' = n
    /\ pc' = call
    /\ UNCHANGED <<script, grammar, todo, err, vin, uval, vn, out, sink, evars, dvars>>

WriteByte ==
    /\ StreamOpen
    /\ Len(written) < MaxStreamBytes
    /\ \E b \in StreamByteValues : StreamWritten(WriteByteTo(ThisStream, b), <<b>>, 1, "writeByte")

WriteArray ==
    /\ StreamOpen
    /\ \E bs \in StreamArrays :
           /\ Len(written) + Len(bs) <= MaxStreamBytes
           /\ StreamWritten(WriteBytesTo(ThisStream, bs), bs, Len(bs), "writeArray")

WriteUint8Array ==
    /\ StreamOpen
    /\ \E bs \in StreamArrays :
           /\ Len(written) + Len(bs) <= MaxStreamBytes
           /\ StreamWritten(WriteBytesTo(ThisStream, bs), bs, Len(bs), "writeUint8Array")

WriteUtf8String ==
    /\ StreamOpen
    /\ \E s \in StreamStrings :
           /\ Len(written) + Len(Utf8Encode(s)) <= MaxStreamBytes
           /\ StreamWritten(WriteBytesTo(ThisStream, Utf8Encode(s)), Utf8Encode(s),
                            Len(Utf8Encode(s)), "writeUtf8String")

\* A copy to a fresh target: what the target got and what was returned
StreamCopied(c, to) ==
    /\ sink' = c.emitted
    /\ bytes_written' = c.bytes_written
    /\ pc' = to
    /\ UNCHANGED <<script, grammar, todo, err, vin, uval, vn, out, priors, priorSize,
                   cur, curOffset, written, evars, dvars>>

CopyToWritable ==
    /\ StreamOpen
    /\ StreamCopied(CopyOf(ThisStream), "copyToWritable")

CopyToWriteStream ==
    /\ StreamOpen
    /\ StreamCopied(CopyOf(ThisStream), "copyToWriteStream")

SNext ==
    \/ WriteByte
    \/ WriteArray
    \/ WriteUint8Array
    \/ WriteUtf8String
    \/ CopyToWritable
    \/ CopyToWriteStream

SpecStream == SInit /\ [][SNext]_vars

\* ------------------------------------------------------------ encoder inputs
S_a == <<97>>
S_b == <<98>>
S_ba == <<98, 97>>
S_eacute == <<233>>
Id(s) == VNode("IdentifierExpression", <<"name">>, <<VStr(s)>>)
NumLit(bits) == VNode("LiteralNumericExpression", <<"value">>, <<VNum(bits)>>)
ES(e) == VNode("ExpressionStatement", <<"expression">>, <<e>>)
ScriptOf(dirs, stmts) == VNode("Script", <<"statements", "directives">>, <<VList(stmts), VList(dirs)>>)
ModuleOf(dirs, items) == VNode("Module", <<"directives", "items">>, <<VList(dirs), VList(items)>>)

Exprs == {NumLit(D_One), NumLit(D_Two), NumLit(D_NegZero), Id(S_a), Id(S_b), Id(S_eacute)}
Statements == {ES(e) : e \in Exprs}
OtherInputs ==
    { ScriptOf(<<VStr(S_ba), VStr(S_b), VStr(S_a)>>, <<>>),
      ScriptOf(<<VUndef, VBool(FALSE), VList(<<VStr(S_a)>>)>>, <<ES(Id(S_a))>>),
      ScriptOf(<<VNull, VBool(TRUE), VNull>>, <<ES(VNull), ES(VBool(TRUE))>>),
      ScriptOf(<<>>, <<ES(NumLit(D_NaNPayload)), ES(NumLit(D_NaN))>>),
      ScriptOf(<<>>, <<ES(NumLit(D_PosZero)), ES(NumLit(D_NegZero))>>),
      ModuleOf(<<>>, <<>>),
      ModuleOf(<<>>, <<ES(Id(S_a))>>),
      ES(Id(S_a)),
      ES(ScriptOf(<<>>, <<>>)) }
Inputs == {ScriptOf(<<>>, l) : l \in SeqsUpTo(Statements, MaxList)} \cup OtherInputs

Init ==
    /\ pc = "start"
    /\ script \in Inputs
    /\ grammar = <<>> /\ todo = <<>> /\ err = "" /\ out = <<>>
    /\ WriterIdle /\ EncoderIdle /\ DecoderIdle

\* Encoder.encodeGrammar
\* The bytes of the grammar: their number, then the bytes
GrammarBytes(bytes) == WriteVarUint(Len(bytes)) \o bytes

\* encodeGrammar once visit has returned r
GrammarVisited(r) ==
    /\ grammar' = r.rules
    /\ IF r.err # ""
       THEN /\ err' = r.err /\ pc' = "encode_failed" /\ out' = out
       ELSE IF ~HasRule(r.rules, "Script")
       THEN /\ err' = "AssertionError: should have a grammar rule for top-level scripts"
            /\ pc' = "encode_failed" /\ out' = out
       ELSE /\ err' = "" /\ pc' = "apply"
            /\ out' = out \o GrammarBytes(JsonStringify(r.rules))

EncodeGrammar ==
    /\ pc = "start"
    /\ GrammarVisited(VisitAll(<<script>>, <<>>))
    /\ UNCHANGED <<script, todo, wvars, evars, dvars>>

\* encodeAbstractSyntax, first step: new TreeRePairApplicator, apply as far
\* as build(script) and new tr.Grammar(tree)
\* apply once build has returned b
TreeBuilt(b) ==
    /\ t_strings' = b.st.strs
    /\ t_numbers' = b.st.nums
    /\ IF b.st.err # ""
       THEN /\ err' = b.st.err /\ pc' = "encode_failed"
            /\ UNCHANGED <<tr_tree, dorder>>
       ELSE /\ err' = err /\ pc' = "mine"
            /\ tr_tree' = b.tree
            /\ dorder' = AppendNew(<<>>, DigramSeq(b.tree))

ApplyBuild ==
    /\ pc = "apply"
    /\ TreeBuilt(Build(script, grammar, [strs |-> <<>>, nums |-> <<>>, err |-> ""]))
    /\ UNCHANGED <<script, grammar, todo, out, tr_rules, nparams, codes, wvars, dvars>>

\* tr_grammar.build(), one turn: the best digram becomes a production
\* The tree with the occurrences of d replaced, and what follows from it
Replaced(replaced) ==
    /\ tr_tree' = replaced
    /\ dorder' = AppendNew(dorder, DigramSeq(replaced))

\* The production of a new nonterminal for d, whose labels have ranks ra, rb
NewProduction(d, ra, rb, formals) ==
    /\ tr_rules' = Append(tr_rules, [nt |-> SymNt(Len(tr_rules), ra + rb - 1, formals),
                                     body |-> PatternBody(d, ra, rb, formals)])
    /\ Replaced(ReplaceAll(tr_tree, d, SymNt(Len(tr_rules), ra + rb - 1, formals)))
    /\ nparams' = nparams + ra + rb - 1

ReplaceDigram(d, ra, rb) == NewProduction(d, ra, rb, FreshFormals(ra + rb - 1, nparams))

ReplaceBest(best) ==
    /\ best # 0
    /\ ReplaceDigram(dorder[best], SymRank(dorder[best][1], grammar),
                     SymRank(dorder[best][3], grammar))

GrammarBuildTurn ==
    /\ pc = "mine"
    /\ ReplaceBest(BestDigram(tr_tree, dorder))
    /\ UNCHANGED <<pc, script, grammar, todo, err, out, t_strings, t_numbers, codes, wvars, dvars>>

\* encodeAbstractSyntax with the codes cs of the symbols
SymbolsCoded(cs) ==
    /\ codes' = cs
    /\ IF HasDuplicates(cs)
       THEN /\ err' = "AssertionError: add_symbol" /\ pc' = "encode_failed" /\ out' = out
       ELSE /\ err' = err /\ pc' = "encoded"
            /\ out' = out \o AbstractSyntaxBytes(tr_rules, tr_tree, grammar,
                                                 t_strings, t_numbers, cs)

\* encodeAbstractSyntax from the symbol codes on, once build() has returned
EncodeAbstractSyntax ==
    /\ pc = "mine"
    /\ BestDigram(tr_tree, dorder) = 0
    /\ SymbolsCoded(SymbolCodes(tr_rules, grammar, t_strings, t_numbers))
    /\ UNCHANGED <<script, grammar, todo, tr_tree, tr_rules, dorder, nparams,
                   t_strings, t_numbers, wvars, dvars>>

\* ------------------------------------------------------------------ Decoder
\* ReadStream.readVarUint at pos: bytes are read while the high bit is set;
\* the read fails when the bytes end first
RECURSIVE ReadVarUintFrom(_, _, _, _)
ReadVarUintFrom(bytes, pos, mult, acc) ==
    IF pos > Len(bytes) THEN [ok |-> FALSE, v |-> 0, pos |-> pos]
    ELSE IF bytes[pos] >= 128
    THEN ReadVarUintFrom(bytes, pos + 1, mult * 128, acc + (bytes[pos] % 128) * mult)
    ELSE [ok |-> TRUE, v |-> acc + bytes[pos] * mult, pos |-> pos + 1]
ReadVarUint(bytes, pos) == ReadVarUintFrom(bytes, pos, 1, 0)

\* n calls of readVarUint in a row
RECURSIVE ReadVarUints(_, _, _, _)
ReadVarUints(bytes, pos, n, got) ==
    IF n = 0 THEN [ok |-> TRUE, vs |-> got, pos |-> pos]
    ELSE LET r == ReadVarUint(bytes, pos)
         IN IF ~r.ok THEN [ok |-> FALSE, vs |-> got, pos |-> pos]
            ELSE ReadVarUints(bytes, r.pos, n - 1, Append(got, r.v))

\* ReadStream.readBytes(n)
ReadBytes(bytes, pos, n) ==
    IF pos + n - 1 > Len(bytes) THEN [ok |-> FALSE, bs |-> <<>>, pos |-> pos]
    ELSE [ok |-> TRUE, bs |-> SubSeq(bytes, pos, pos + n - 1), pos |-> pos + n]

\* The code units of UTF-8 bytes; a malformed byte reads as U+FFFD
RECURSIVE Utf8Decode(_)
Utf8Decode(bs) ==
    IF bs = <<>> THEN <<>>
    ELSE LET h == bs[1]
             cont(i) == i <= Len(bs) /\ bs[i] >= 128 /\ bs[i] < 192
         IN IF h < 128 THEN <<h>> \o Utf8Decode(Tail(bs))
            ELSE IF h >= 192 /\ h < 224 /\ cont(2)
            THEN <<(h - 192) * 64 + (bs[2] - 128)>> \o Utf8Decode(SubSeq(bs, 3, Len(bs)))
            ELSE IF h >= 224 /\ h < 240 /\ cont(2) /\ cont(3)
            THEN <<(h - 224) * 4096 + (bs[2] - 128) * 64 + (bs[3] - 128)>>
                     \o Utf8Decode(SubSeq(bs, 4, Len(bs)))
            ELSE <<65533>> \o Utf8Decode(Tail(bs))

\* JSON.parse of the grammar listing: the rules in the order listed
RECURSIVE JsonParse(_, _)
JsonParse(bs, got) ==
    IF bs = <<>> THEN [ok |-> TRUE, rules |-> got]
    ELSE IF Len(bs) < 2 \/ bs[1] < 1 \/ bs[1] > Len(KindNames) \/ Len(bs) < 2 + bs[2]
              \/ \E j \in 3..(2 + bs[2]) : bs[j] < 1 \/ bs[j] > Len(NameOrder)
    THEN [ok |-> FALSE, rules |-> got]
    ELSE JsonParse(SubSeq(bs, 3 + bs[2], Len(bs)),
                   Append(got, [kind |-> KindNames[bs[1]],
                                props |-> [j \in 1..bs[2] |-> NameOrder[bs[2 + j]]]]))

\* Decoder.decodeGrammar
DecodeGrammarAt(bytes, pos) ==
    LET len == ReadVarUint(bytes, pos)
        src == ReadBytes(bytes, len.pos, len.v)
        parsed == JsonParse(src.bs, <<>>)
    IN IF ~len.ok THEN [err |-> "Truncated", pos |-> pos, rules |-> <<>>]
       ELSE IF ~src.ok THEN [err |-> "Truncated", pos |-> len.pos, rules |-> <<>>]
       ELSE IF ~parsed.ok THEN [err |-> "SyntaxError", pos |-> src.pos, rules |-> <<>>]
       ELSE [err |-> "", pos |-> src.pos, rules |-> parsed.rules]

VersionErrorOnlyFewer(n) ==
    IF n < 6 THEN "not yet implemented: decode fewer than 6 tags" ELSE ""

\* The check of num_built_in_tags: the error it throws, "" when it passes
VersionError(n) ==
    IF n < 6 THEN "not yet implemented: decode fewer than 6 tags"
    ELSE IF n # 6 THEN "decoder too old: encountered more than 6 built-in tags"
    ELSE ""

\* ranks and rank_offset from the histogram values that follow num_ranks:
\* the count of rank 0, then a delta and a count for every further rank
RECURSIVE RankTable(_, _, _)
RankTable(vs, i, ranks) ==
    IF 2 * i > Len(vs) THEN ranks
    ELSE RankTable(vs, i + 1, Append(ranks, ranks[Len(ranks)] + vs[2 * i] + 1))

RECURSIVE RankOffsets(_, _, _)
RankOffsets(vs, i, offs) ==
    IF 2 * i + 1 > Len(vs) THEN offs
    ELSE RankOffsets(vs, i + 1, Append(offs, offs[Len(offs)] + vs[2 * i + 1]))

\* readUtf8Bytes for each length in turn
RECURSIVE ReadStrings(_, _, _, _)
ReadStrings(bytes, pos, lens, got) ==
    IF lens = <<>> THEN [ok |-> TRUE, strs |-> got, pos |-> pos]
    ELSE LET r == ReadBytes(bytes, pos, Head(lens))
         IN IF ~r.ok THEN [ok |-> FALSE, strs |-> got, pos |-> pos]
            ELSE ReadStrings(bytes, r.pos, Tail(lens), Append(got, Utf8Decode(r.bs)))

\* decodeFloat for each numeric constant in turn
RECURSIVE ReadFloats(_, _, _, _)
ReadFloats(bytes, pos, n, got) ==
    IF n = 0 THEN [ok |-> TRUE, nums |-> got, pos |-> pos]
    ELSE LET r == ReadBytes(bytes, pos, 8)
         IN IF ~r.ok THEN [ok |-> FALSE, nums |-> got, pos |-> pos]
            ELSE ReadFloats(bytes, r.pos, n - 1, Append(got, r.bs))

\* The constants decodeAbstractSyntax derives from the header: h holds
\* num_parameters, num_built_in_tags, the histogram values after num_ranks,
\* the pools and the grammar
HeaderTables(num_parameters, num_built_in_tags, hist, g, strs, nums) ==
    LET ranks == RankTable(hist, 1, <<0>>)
        rank_offset == RankOffsets(hist, 1, <<0, hist[1]>>)
        first_built_in_tag == num_parameters
        first_meta_rule == first_built_in_tag + num_built_in_tags
        num_meta_rules == rank_offset[Len(rank_offset)]
        first_grammar_rule == first_meta_rule + num_meta_rules
        num_grammar_rules == Len(g)
        first_string_constant == first_grammar_rule + num_grammar_rules
        first_numeric_constant == first_string_constant + Len(strs)
    IN [read |-> TRUE,
        num_parameters |-> num_parameters,
        tag_nil |-> first_built_in_tag + 0,
        tag_null |-> first_built_in_tag + 1,
        tag_cons |-> first_built_in_tag + 2,
        tag_false |-> first_built_in_tag + 3,
        tag_true |-> first_built_in_tag + 4,
        tag_undefined |-> first_built_in_tag + 5,
        first_meta_rule |-> first_meta_rule,
        num_ranks |-> Len(ranks),
        ranks |-> ranks,
        rank_offset |-> rank_offset,
        num_meta_rules |-> num_meta_rules,
        last_meta_rule |-> first_meta_rule + num_meta_rules - 1,
        first_grammar_rule |-> first_grammar_rule,
        num_grammar_rules |-> num_grammar_rules,
        last_grammar_rule |-> first_grammar_rule + num_grammar_rules - 1,
        first_string_constant |-> first_string_constant,
        num_string_constants |-> Len(strs),
        last_string_constant |-> first_string_constant + Len(strs) - 1,
        string_constants |-> strs,
        first_numeric_constant |-> first_numeric_constant,
        num_numeric_constants |-> Len(nums),
        last_numeric_constant |-> first_numeric_constant + Len(nums) - 1,
        numeric_constants |-> nums,
        grammar |-> g,
        meta_rules |-> <<>>,
        start_production |-> <<>>,
        buffered |-> FALSE]

\* meta_rank(i): the rank of the first bucket that ends after rule i
MetaRank(dt, i) ==
    LET j == CHOOSE j \in 0..(dt.num_ranks - 1) :
                 /\ i < dt.rank_offset[j + 2]
                 /\ \A m \in 0..(j - 1) : ~(i < dt.rank_offset[m + 2])
    IN dt.ranks[j + 1]

BufferArityKindLeaf(dt, tag) ==
    IF tag = dt.tag_cons THEN 2
    ELSE IF dt.first_meta_rule <= tag /\ tag <= dt.last_meta_rule
    THEN MetaRank(dt, tag - dt.first_meta_rule)
    ELSE 0

\* The number of subtrees buffer_tree reads after a tag
BufferArity(dt, tag) ==
    IF tag = dt.tag_cons THEN 2
    ELSE IF dt.first_meta_rule <= tag /\ tag <= dt.last_meta_rule
    THEN MetaRank(dt, tag - dt.first_meta_rule)
    ELSE IF dt.first_grammar_rule <= tag /\ tag <= dt.last_grammar_rule
    THEN Len(dt.grammar[tag - dt.first_grammar_rule + 1].props)
    ELSE 0

\* buffer_tree(need, buffer): the tags of need trees in preorder
RECURSIVE BufferTree(_, _, _, _, _)
BufferTree(dt, bytes, pos, need, buffer) ==
    IF need = 0 THEN [ok |-> TRUE, buffer |-> buffer, pos |-> pos]
    ELSE LET r == ReadVarUint(bytes, pos)
         IN IF ~r.ok THEN [ok |-> FALSE, buffer |-> buffer, pos |-> pos]
            ELSE BufferTree(dt, bytes, r.pos, need - 1 + BufferArity(dt, r.v),
                            Append(buffer, r.v))

\* The loop that reads the meta rules, one buffer_tree(1, []) each
RECURSIVE BufferRules(_, _, _, _, _)
BufferRules(dt, bytes, pos, n, got) ==
    IF n = 0 THEN [ok |-> TRUE, bufs |-> got, pos |-> pos]
    ELSE LET r == BufferTree(dt, bytes, pos, 1, <<>>)
         IN IF ~r.ok THEN [ok |-> FALSE, bufs |-> got, pos |-> r.pos]
            ELSE BufferRules(dt, bytes, r.pos, n - 1, Append(got, r.buffer))

ReplayFail(e, pos) == [err |-> e, val |-> NoValue, pos |-> pos]
ReplayOk(v, pos) == [err |-> "", val |-> v, pos |-> pos]

BogusTagAccepted(tag, pos) == ReplayOk(VUndef, pos)

\* The last branch of replay_tree: assert(false, ...)
BogusTag(tag, pos) == ReplayFail("AssertionError: unreachable, read a bogus tag", pos)

\* replay_tree(tree, actuals): tree is the buffer buf read from pos on; depth
\* counts the meta-rule bodies being replayed
RECURSIVE ReplayTree(_, _, _, _, _)
RECURSIVE ReplayMany(_, _, _, _, _, _, _)
ReplayTree(dt, buf, pos, actuals, depth) ==
    IF pos > Len(buf) THEN BogusTag(-1, pos)
    ELSE
    LET tag == buf[pos]
        next == pos + 1
    IN IF tag = dt.tag_nil THEN ReplayOk(VList(<<>>), next)
       ELSE IF tag = dt.tag_null THEN ReplayOk(VNull, next)
       ELSE IF tag = dt.tag_cons
       THEN LET r == ReplayMany(dt, buf, next, actuals, 2, <<>>, depth)
            IN IF r.err # "" THEN ReplayFail(r.err, r.pos)
               ELSE IF ~IsList(r.vals[2])
               THEN ReplayFail("TypeError: rest.unshift is not a function", r.pos)
               ELSE ReplayOk(VList(<<r.vals[1]>> \o r.vals[2][2]), r.pos)
       ELSE IF tag = dt.tag_false THEN ReplayOk(VBool(FALSE), next)
       ELSE IF tag = dt.tag_true THEN ReplayOk(VBool(TRUE), next)
       ELSE IF tag = dt.tag_undefined THEN ReplayOk(VUndef, next)
       ELSE IF 0 <= tag /\ tag < dt.num_parameters
       THEN IF tag < Len(actuals) THEN ReplayOk(actuals[tag + 1], next)
            ELSE ReplayFail("AssertionError: tag < actuals.length", next)
       ELSE IF dt.first_meta_rule <= tag /\ tag <= dt.last_meta_rule
       THEN LET rule_i == tag - dt.first_meta_rule
                rank == MetaRank(dt, rule_i)
                r == ReplayMany(dt, buf, next, actuals, rank, <<>>, depth)
            IN IF r.err # "" THEN ReplayFail(r.err, r.pos)
               ELSE IF depth >= MaxReplayDepth
               THEN ReplayFail("RangeError: Maximum call stack size exceeded", r.pos)
               ELSE LET b == ReplayTree(dt, dt.meta_rules[rule_i + 1], 1, r.vals, depth + 1)
                    IN IF b.err # "" THEN ReplayFail(b.err, r.pos)
                       ELSE ReplayOk(b.val, r.pos)
       ELSE IF dt.first_grammar_rule <= tag /\ tag <= dt.last_grammar_rule
       THEN LET rule == dt.grammar[tag - dt.first_grammar_rule + 1]
                r == ReplayMany(dt, buf, next, actuals, Len(rule.props), <<>>, depth)
            IN IF r.err # "" THEN ReplayFail(r.err, r.pos)
               ELSE ReplayOk(VNode(rule.kind, rule.props, r.vals), r.pos)
       ELSE IF dt.first_string_constant <= tag /\ tag <= dt.last_string_constant
       THEN ReplayOk(VStr(dt.string_constants[tag - dt.first_string_constant + 1]), next)
       ELSE IF dt.first_numeric_constant <= tag /\ tag <= dt.last_numeric_constant
       THEN ReplayOk(VNum(dt.numeric_constants[tag - dt.first_numeric_constant + 1]), next)
       ELSE BogusTag(tag, next)

\* n calls of replay_tree on the same iterator, one after the other
ReplayMany(dt, buf, pos, actuals, n, got, depth) ==
    IF n = 0 THEN [err |-> "", vals |-> got, pos |-> pos]
    ELSE LET r == ReplayTree(dt, buf, pos, actuals, depth)
         IN IF r.err # "" THEN [err |-> r.err, vals |-> got, pos |-> r.pos]
            ELSE ReplayMany(dt, buf, r.pos, actuals, n - 1, Append(got, r.val), depth)

\* Decoder.decodeAbstractSyntax on the bytes from pos on, with grammar g: the
\* error, the read position, the tables and the value returned
DecodeAbstractSyntaxAt(bytes, pos, g) ==
    LET fail(e, at, dt) == [err |-> e, pos |-> at, dec |-> dt, program |-> NoValue]
        pb == ReadVarUints(bytes, pos, 2, <<>>)
        nr == ReadVarUint(bytes, pb.pos)
        hist == ReadVarUints(bytes, nr.pos, 1 + 2 * nr.v, <<>>)
        ns == ReadVarUint(bytes, hist.pos)
        lens == ReadVarUints(bytes, ns.pos, ns.v, <<>>)
        strs == ReadStrings(bytes, lens.pos, lens.vs, <<>>)
        nf == ReadVarUint(bytes, strs.pos)
        nums == ReadFloats(bytes, nf.pos, nf.v, <<>>)
        dt0 == HeaderTables(pb.vs[1], pb.vs[2], hist.vs, g, strs.strs, nums.nums)
        bodies == BufferRules(dt0, bytes, nums.pos, dt0.num_meta_rules, <<>>)
        start == BufferTree(dt0, bytes, bodies.pos, 1, <<>>)
        dt == [dt0 EXCEPT !.meta_rules = bodies.bufs,
                          !.start_production = start.buffer,
                          !.buffered = TRUE]
        r == ReplayTree(dt, dt.start_production, 1, <<>>, 0)
    IN IF ~pb.ok THEN fail("Truncated", pb.pos, NoTables)
       ELSE IF VersionError(pb.vs[2]) # "" THEN fail(VersionError(pb.vs[2]), pb.pos, NoTables)
       ELSE IF ~nr.ok THEN fail("Truncated", nr.pos, NoTables)
       ELSE IF ~hist.ok THEN fail("Truncated", hist.pos, NoTables)
       ELSE IF ~ns.ok THEN fail("Truncated", ns.pos, NoTables)
       ELSE IF ~lens.ok THEN fail("Truncated", lens.pos, NoTables)
       ELSE IF ~strs.ok THEN fail("Truncated", strs.pos, NoTables)
       ELSE IF ~nf.ok THEN fail("Truncated", nf.pos, NoTables)
       ELSE IF ~nums.ok THEN fail("Truncated", nums.pos, NoTables)
       ELSE IF ~bodies.ok THEN fail("Truncated", bodies.pos, dt0)
       ELSE IF ~start.ok THEN fail("Truncated", start.pos, dt0)
       ELSE IF r.err # "" THEN fail(r.err, start.pos, dt)
       ELSE [err |-> "", pos |-> start.pos, dec |-> dt, program |-> r.val]

\* Decoder.decode, first statement: this.grammar = this.decodeGrammar()
GrammarDecoded(r) ==
    /\ rpos' = r.pos
    /\ dgrammar' = r.rules
    /\ derr' = r.err
    /\ pc' = IF r.err # "" THEN "decode_failed" ELSE "grammar_decoded"

DecodeGrammar ==
    /\ pc = "encoded"
    /\ GrammarDecoded(DecodeGrammarAt(out, rpos))
    /\ UNCHANGED <<script, grammar, todo, err, out, dec, program, wvars, evars>>

\* Decoder.decode, second statement: this.program = this.decodeAbstractSyntax()
AbstractSyntaxDecoded(r) ==
    /\ rpos' = r.pos
    /\ dec' = r.dec
    /\ derr' = r.err
    /\ program' = r.program
    /\ pc' = IF r.err # "" THEN "decode_failed" ELSE "decoded"

DecodeAbstractSyntax ==
    /\ pc = "grammar_decoded"
    /\ AbstractSyntaxDecoded(DecodeAbstractSyntaxAt(out, rpos, dgrammar))
    /\ UNCHANGED <<script, grammar, todo, err, out, dgrammar, wvars, evars>>

Next ==
    \/ EncodeGrammar
    \/ ApplyBuild
    \/ GrammarBuildTurn
    \/ EncodeAbstractSyntax
    \/ DecodeGrammar
    \/ DecodeAbstractSyntax

Spec == Init /\ [][Next]_vars

\* ------------------------------------------------- byte streams for the decoder
\* Streams that no encoder need have written: a header with the given counts
\* and pools, then any tokens
StreamGrammar == <<[kind |-> "Script", props |-> <<"statements">>],
                   [kind |-> "IdentifierExpression", props |-> <<>>]>>
StreamHeader(P, B, hist, strs, nums) ==
    LET json == JsonStringify(StreamGrammar)
    IN WriteVarUint(Len(json)) \o json
       \o WriteVarUint(P) \o WriteVarUint(B)
       \o ConcatAll([i \in 1..Len(hist) |-> WriteVarUint(hist[i])])
       \o WriteVarUint(Len(strs))
       \o ConcatAll([i \in 1..Len(strs) |-> WriteVarUint(Len(Utf8Encode(strs[i])))])
       \o ConcatAll([i \in 1..Len(strs) |-> Utf8Encode(strs[i])])
       \o WriteVarUint(Len(nums))
       \o ConcatAll([i \in 1..Len(nums) |-> WriteFloat(nums[i])])
StreamHeaders ==
    { StreamHeader(1, 6, <<1, 0, 0, 1>>, <<S_a>>, <<D_One>>),   \* one rule of rank 1
      StreamHeader(0, 6, <<0, 2>>, <<S_a>>, <<>>),              \* two rules of rank 0
      StreamHeader(0, 6, <<0, 0>>, <<>>, <<>>),                 \* no rule
      StreamHeader(0, 5, <<0, 0>>, <<>>, <<>>),
      StreamHeader(0, 7, <<0, 0>>, <<>>, <<>>),
      StreamHeader(1, 0, <<0, 0>>, <<>>, <<>>) }
Streams == {h \o t : h \in StreamHeaders, t \in SeqsUpTo(0..MaxTag, MaxTokens)}

DInit ==
    /\ pc = "encoded"
    /\ out \in Streams
    /\ script = NoValue /\ grammar = <<>> /\ todo = <<>> /\ err = ""
    /\ WriterIdle /\ EncoderIdle /\ DecoderIdle

DNext == DecodeGrammar \/ DecodeAbstractSyntax

SpecDecode == DInit /\ [][DNext]_vars

\* ------------------------------------------------------------ properties
RootKind(v) == IF IsNode(v) THEN v[2].kind ELSE ""
IsProgramRoot(v) == RootKind(v) \in {"Script", "Module"}
Finished == pc \in {"encode_failed", "decode_failed", "decoded"}

\* Structural equality of AST values: the same kind, property names and
\* values at every node, the same elements in order, the same primitives
RECURSIVE AstEq(_, _)
AstEq(a, b) ==
    IF a[1] # b[1] THEN FALSE
    ELSE IF a[1] = "list"
    THEN /\ Len(a[2]) = Len(b[2])
         /\ \A i \in 1..Len(a[2]) : AstEq(a[2][i], b[2][i])
    ELSE IF a[1] = "node"
    THEN /\ a[2].kind = b[2].kind
         /\ SeqRange(a[2].names) = SeqRange(b[2].names)
         /\ \A n \in SeqRange(a[2].names) : AstEq(PropVal(a, n), PropVal(b, n))
    ELSE a[2] = b[2]

\* C1: for every AST whose root is a Script or a Module, encode followed by
\* decode ends with a program structurally equal to the input.
C1_RoundTrip ==
    (IsProgramRoot(script) /\ Finished) => (pc = "decoded" /\ AstEq(program, script))

\* The states in which the decoder has read the header of the bytes
HeaderRead == pc \in {"decoded", "decode_failed"} /\ dec.read

CodesOfClass(cs, tags) == {i \in 1..Len(cs) : cs[i][1] \in tags}
RuleLabels == UNION {SeqRange(PreOrder(tr_rules[i].body)) : i \in 1..Len(tr_rules)}

\* C3: every symbol has exactly one code; the codes are 0..P+6+M+G+S+F-1 in
\* the order parameters, nil, null, cons, false, true, undefined, meta-rules
\* by ascending rank, grammar kinds in grammar order, strings, numbers; and
\* the ranges the decoder derives from the header are these partitions.
C3_SymbolCodeSpace ==
    HeaderRead =>
        LET cs == codes
            P == Cardinality(CodesOfClass(cs, {"param"}))
            M == Cardinality(CodesOfClass(cs, {"nt"}))
            G == Cardinality(CodesOfClass(cs, {"kind"}))
            S == Cardinality(CodesOfClass(cs, {"str"}))
            F == Cardinality(CodesOfClass(cs, {"num"}))
        IN /\ ~HasDuplicates(cs)
           /\ \A l \in SeqRange(PreOrder(tr_tree)) \cup RuleLabels : CodeOf(cs, l) >= 0
           /\ Len(cs) = P + 6 + M + G + S + F
           /\ CodesOfClass(cs, {"param"}) = 1..P
           /\ SubSeq(cs, P + 1, P + 6)
                  = <<SymNil, SymNull, SymCons, SymFalse, SymTrue, SymUndefined>>
           /\ CodesOfClass(cs, {"nt"}) = (P + 7)..(P + 6 + M)
           /\ \A i, j \in (P + 7)..(P + 6 + M) : i < j => cs[i][2].rank <= cs[j][2].rank
           /\ G = Len(grammar)
           /\ \A i \in 1..G : cs[P + 6 + M + i] = SymKind(grammar[i].kind)
           /\ CodesOfClass(cs, {"str"}) = (P + 7 + M + G)..(P + 6 + M + G + S)
           /\ CodesOfClass(cs, {"num"}) = (P + 7 + M + G + S)..(P + 6 + M + G + S + F)
           /\ dec.num_parameters = P
           /\ <<dec.tag_nil, dec.tag_null, dec.tag_cons, dec.tag_false, dec.tag_true,
                dec.tag_undefined>> = <<P, P + 1, P + 2, P + 3, P + 4, P + 5>>
           /\ <<dec.first_meta_rule, dec.last_meta_rule>> = <<P + 6, P + 6 + M - 1>>
           /\ \A i \in 0..(M - 1) : MetaRank(dec, i) = cs[P + 7 + i][2].rank
           /\ <<dec.first_grammar_rule, dec.last_grammar_rule>>
                  = <<P + 6 + M, P + 6 + M + G - 1>>
           /\ \A i \in 1..G : dec.grammar[i].kind = grammar[i].kind
           /\ <<dec.first_string_constant, dec.last_string_constant>>
                  = <<P + 6 + M + G, P + 6 + M + G + S - 1>>
           /\ <<dec.first_numeric_constant, dec.last_numeric_constant>>
                  = <<P + 6 + M + G + S, P + 6 + M + G + S + F - 1>>

\* A run with parameters, meta-rules of two ranks, strings and numbers
C3_Witness ==
    /\ HeaderRead
    /\ CodesOfClass(codes, {"param"}) # {}
    /\ \E i, j \in CodesOfClass(codes, {"nt"}) : codes[i][2].rank < codes[j][2].rank
    /\ CodesOfClass(codes, {"str"}) # {}
    /\ CodesOfClass(codes, {"num"}) # {}

\* C4: when the built-in count of the header is not 6, decodeAbstractSyntax
\* fails with the version error right after reading the count: no byte of the
\* rank histogram or of a tree is read, no table is made, no AST is returned.
C4_VersionMismatch ==
    [][LET counts == ReadVarUints(out, rpos, 2, <<>>)
       IN (pc = "grammar_decoded" /\ counts.ok /\ counts.vs[2] # 6)
          => /\ pc' = "decode_failed"
             /\ derr' \in {"not yet implemented: decode fewer than 6 tags",
                           "decoder too old: encountered more than 6 built-in tags"}
             /\ rpos' = counts.pos
             /\ dec' = NoTables
             /\ program' = NoValue]_vars

\* A stream with 7 built-ins has been refused
C4_Witness ==
    /\ pc = "decode_failed"
    /\ derr = "decoder too old: encountered more than 6 built-in tags"
    /\ program = NoValue

\* C5: decode never returns a value that is not a Script or a Module node.
C5_UnexpectedRoot == (pc = "decoded") => IsProgramRoot(program)

\* C6: encode accepts an AST exactly when its root is a Script or a Module.
C6_EncodeInput ==
    (pc # "start") => ((pc = "encode_failed") <=> ~IsProgramRoot(script))

\* The leaves of an AST value with the given tag, the children of a node in
\* grammar order, the elements of a list from the last when backwards
RECURSIVE LeavesOf(_, _, _, _)
LeavesOf(v, g, tag, backwards) ==
    IF v[1] = tag THEN <<v[2]>>
    ELSE IF v[1] = "list"
    THEN ConcatAll([i \in 1..Len(v[2]) |->
             LeavesOf(v[2][IF backwards THEN Len(v[2]) + 1 - i ELSE i], g, tag, backwards)])
    ELSE IF v[1] = "node"
    THEN LET props == RuleProps(g, v[2].kind)
         IN ConcatAll([j \in 1..Len(props) |-> LeavesOf(PropVal(v, props[j]), g, tag, backwards)])
    ELSE <<>>

CountIn(seq, x) == Cardinality({i \in 1..Len(seq) : SameValueZero(seq[i], x)})
FirstIn(seq, x) == CHOOSE i \in 1..Len(seq) :
                       SameValueZero(seq[i], x) /\ \A j \in 1..(i - 1) : ~SameValueZero(seq[j], x)

\* The string pool: every string of the AST once, strictly ascending, coded
\* from the start of the string partition
StringPoolOrdered ==
    LET pool == dec.string_constants
        used == LeavesOf(script, grammar, "str", FALSE)
    IN /\ SeqRange(pool) = SeqRange(used)
       /\ \A i \in 1..(Len(pool) - 1) : StrLess(pool[i], pool[i + 1])
       /\ \A i \in 1..Len(pool) :
              CodeOf(codes, SymStr(pool[i])) = dec.first_string_constant + i - 1

\* The numeric pool against the numbers in the order seen: every number once
\* (a Map key: one entry for -0 and +0), the larger count first, numbers of
\* equal count in the order seen, coded from the start of the partition
NumericPoolOrdered(seen) ==
    LET pool == dec.numeric_constants
    IN /\ \A i \in 1..Len(seen) : \E j \in 1..Len(pool) : SameValueZero(pool[j], seen[i])
       /\ \A j \in 1..Len(pool) : \E i \in 1..Len(seen) : SameValueZero(pool[j], seen[i])
       /\ \A i, j \in 1..Len(pool) : i < j =>
              /\ ~SameValueZero(pool[i], pool[j])
              /\ CountIn(seen, pool[i]) >= CountIn(seen, pool[j])
              /\ CountIn(seen, pool[i]) = CountIn(seen, pool[j])
                     => FirstIn(seen, pool[i]) < FirstIn(seen, pool[j])
       /\ \A i \in 1..Len(pool) :
              CodeOf(codes, SymNum(pool[i])) = dec.first_numeric_constant + i - 1

\* C8 as stated: strings strictly ascending, numbers by count, the larger
\* first, numbers of equal count in the order of their first occurrence in
\* the AST.
C8_PoolOrdering ==
    HeaderRead =>
        /\ StringPoolOrdered
        /\ NumericPoolOrdered(LeavesOf(script, grammar, "num", FALSE))

\* C8, amended: numbers of equal count are in the order build first reaches
\* them, and build goes through the elements of a list from the last to the
\* first; -0 is listed as +0.
C8_PoolOrderingBuildOrder ==
    HeaderRead =>
        /\ StringPoolOrdered
        /\ NumericPoolOrdered(LeavesOf(script, grammar, "num", TRUE))
        /\ \A i \in 1..Len(dec.numeric_constants) : dec.numeric_constants[i] # D_NegZero

\* Two numbers of equal count are listed against their order in the AST, and
\* a number of larger count is listed before one that comes earlier
C8_Witness ==
    /\ HeaderRead
    /\ \/ /\ dec.numeric_constants = <<D_Two, D_One>>
          /\ LeavesOf(script, grammar, "num", FALSE) = <<D_One, D_Two>>
       \/ /\ dec.numeric_constants = <<D_Two, D_One>>
          /\ LeavesOf(script, grammar, "num", FALSE) = <<D_One, D_Two, D_Two>>

\* The tags outside all partitions, and the meta-rules replay can reach
IsBogusTag(dt, tag) == tag > dt.last_numeric_constant
HasBogusTag(dt, buf) == \E i \in 1..Len(buf) : IsBogusTag(dt, buf[i])
RulesIn(dt, buf) ==
    {buf[i] - dt.first_meta_rule + 1 : i \in {j \in 1..Len(buf) :
        dt.first_meta_rule <= buf[j] /\ buf[j] <= dt.last_meta_rule}}
RECURSIVE RulesFrom(_, _, _)
RulesFrom(dt, found, n) ==
    IF n = 0 THEN found
    ELSE RulesFrom(dt, found \cup UNION {RulesIn(dt, dt.meta_rules[r]) : r \in found}, n - 1)
ReachedRules(dt) == RulesFrom(dt, RulesIn(dt, dt.start_production), dt.num_meta_rules)

\* C9 as stated: a tag outside all partitions, in the start tree or in any
\* meta-rule body, makes decode fail.
C9_UnknownTag ==
    (pc \in {"decoded", "decode_failed"} /\ dec.read /\ dec.buffered
        /\ (\/ HasBogusTag(dec, dec.start_production)
            \/ \E r \in 1..dec.num_meta_rules : HasBogusTag(dec, dec.meta_rules[r])))
    => (pc = "decode_failed" /\ program = NoValue)

\* C9, amended: a tag outside all partitions in the start tree, or in the
\* body of a meta-rule that the start tree uses directly or through other
\* bodies, makes decode fail with no AST; the bogus-tag assertion fails for
\* such a tag only.
C9_UnknownTagReplayed ==
    (pc \in {"decoded", "decode_failed"} /\ dec.read /\ dec.buffered)
    => LET reached == \/ HasBogusTag(dec, dec.start_production)
                      \/ \E r \in ReachedRules(dec) : HasBogusTag(dec, dec.meta_rules[r])
       IN /\ reached => (pc = "decode_failed" /\ program = NoValue)
          /\ derr = "AssertionError: unreachable, read a bogus tag" => reached

\* The bogus tag of a body the start tree uses has stopped the decoder
C9_Witness ==
    /\ pc = "decode_failed" /\ dec.read /\ dec.buffered
    /\ derr = "AssertionError: unreachable, read a bogus tag"
    /\ ~HasBogusTag(dec, dec.start_production)
    /\ \E r \in ReachedRules(dec) : HasBogusTag(dec, dec.meta_rules[r])

\* C11: every number of the input AST decodes with the same 64 bits, and two
\* number leaves share a pool entry only when their bits are the same.
C11_DoubleBits ==
    (pc = "decoded") =>
        /\ LeavesOf(program, grammar, "num", FALSE) = LeavesOf(script, grammar, "num", FALSE)
        /\ Len(dec.numeric_constants)
               = Cardinality(SeqRange(LeavesOf(script, grammar, "num", FALSE)))

\* C12: in the body of every meta-rule the decoder replays, each parameter
\* tag is smaller than the rank of the rule, and the k-th formal of the rule's
\* nonterminal has the code k - 1, so that actuals[tag] is its actual.
C12_ParameterSubstitution ==
    (HeaderRead /\ dec.buffered) =>
        \A r \in ReachedRules(dec) :
            LET nt == codes[dec.first_meta_rule + r]
                body == dec.meta_rules[r]
            IN /\ \A i \in 1..Len(body) :
                      body[i] < dec.num_parameters => body[i] < nt[2].rank
               /\ \A k \in 1..nt[2].rank : CodeOf(codes, nt[2].formals[k]) = k - 1

\* The list values of an AST value
RECURSIVE ListsOf(_)
ListsOf(v) ==
    IF v[1] = "list"
    THEN {v} \cup UNION {ListsOf(v[2][i]) : i \in 1..Len(v[2])}
    ELSE IF v[1] = "node"
    THEN UNION {ListsOf(v[2].vals[i]) : i \in 1..Len(v[2].vals)}
    ELSE {}

\* build on a value with the tables of the state, and replay_tree on the
\* tokens of a tree that has no nonterminal
TreeOf(v) == Build(v, grammar, [strs |-> t_strings, nums |-> t_numbers, err |-> ""]).tree
KeysOf(tbl) == [i \in 1..Len(tbl) |-> tbl[i].key] \o <<>>
BuiltTables ==
    HeaderTables(0, 6, <<0>>, grammar, KeysOf(SortStrings(t_strings)),
                 KeysOf(SortNumbers(t_numbers)))
TokensOf(labels) ==
    [i \in 1..Len(labels) |->
        CodeOf(SymbolCodes(<<>>, grammar, t_strings, t_numbers), labels[i])] \o <<>>
ReplayOf(t) == ReplayTree(BuiltTables, TokensOf(PreOrder(t)), 1, <<>>, 0)

\* t is n cons nodes nested to the right and ended by one nil
RECURSIVE RightNested(_, _)
RightNested(t, n) ==
    IF n = 0 THEN t = Leaf(SymNil)
    ELSE t.l = SymCons /\ Len(t.k) = 2 /\ RightNested(t.k[2], n - 1)

\* The first child of the i-th cons of a right-nested tree
RECURSIVE ElementTree(_, _)
ElementTree(t, i) == IF i = 1 THEN t.k[1] ELSE ElementTree(t.k[2], i - 1)

TreeAsBuilt == pc = "mine" /\ tr_rules = <<>>

\* C13: build turns a list of n elements into n right-nested cons nodes over
\* the trees of its elements in order, ended by one nil, and replay_tree on
\* that tree returns the list of the replays of the elements, in order.
C13_Lists ==
    TreeAsBuilt =>
        \A L \in ListsOf(script) :
            LET t == TreeOf(L)
                n == Len(L[2])
                r == ReplayOf(t)
            IN /\ RightNested(t, n)
               /\ \A i \in 1..n : ElementTree(t, i) = TreeOf(L[2][i])
               /\ r.err = "" /\ IsList(r.val) /\ Len(r.val[2]) = n
               /\ \A i \in 1..n : r.val[2][i] = ReplayOf(TreeOf(L[2][i])).val

\* A list of two different elements has been built and replays as itself
C13_Witness ==
    /\ TreeAsBuilt
    /\ \E L \in ListsOf(script) :
           /\ Len(L[2]) >= 2 /\ L[2][1] # L[2][2]
           /\ AstEq(ReplayOf(TreeOf(L)).val, L)

\* The elements of a set of numbers in ascending order
RECURSIVE Ascending(_)
Ascending(S) ==
    IF S = {} THEN <<>>
    ELSE LET least == CHOOSE x \in S : \A y \in S : x <= y
         IN <<least>> \o Ascending(S \ {least})

RuleRanks == {tr_rules[i].nt[2].rank : i \in 1..Len(tr_rules)}
RulesOfRank(k) == Cardinality({i \in 1..Len(tr_rules) : tr_rules[i].nt[2].rank = k})
OutputWritten == pc \in {"encoded", "grammar_decoded", "decoded", "decode_failed"}

\* The values written after the built-in count: the number of ranks less
\* one, then the histogram
HistogramWritten(n) ==
    ReadVarUints(out, ReadVarUints(out, DecodeGrammarAt(out, 1).pos, 2, <<>>).pos, n, <<>>).vs

\* C14: the encoder writes the number of distinct ranks, rank 0 included,
\* less one, the count of rank 0, then for each further rank in ascending
\* order its distance from the rank before less one and its count; from these
\* the decoder's meta_rank gives every meta-rule index the rank of the
\* nonterminal coded at first_meta_rule + i, and M is the number of productions.
C14_RankHistogram ==
    OutputWritten =>
        LET ranks == Ascending(RuleRanks \cup {0})
            hv == HistogramWritten(2 * Len(ranks))
        IN /\ hv[1] = Len(ranks) - 1
           /\ hv[2] = RulesOfRank(0)
           /\ \A j \in 2..Len(ranks) :
                  /\ hv[2 * j - 1] = ranks[j] - ranks[j - 1] - 1
                  /\ hv[2 * j] = RulesOfRank(ranks[j])
           /\ HeaderRead =>
                  /\ dec.num_meta_rules = Len(tr_rules)
                  /\ \A i \in 0..(Len(tr_rules) - 1) :
                         MetaRank(dec, i) = codes[dec.first_meta_rule + i + 1][2].rank

\* Rules of rank 0 and of a larger rank have been written and read
C14_Witness ==
    /\ HeaderRead
    /\ 0 \in RuleRanks
    /\ \E k \in RuleRanks : k >= 2

\* The codes of the labels of a tree in preorder, and the body of the
\* production of a nonterminal
CodesInPreOrder(t) ==
    [i \in 1..Len(PreOrder(t)) |-> CodeOf(codes, PreOrder(t)[i])] \o <<>>
BodyOf(nt) == tr_rules[CHOOSE j \in 1..Len(tr_rules) : tr_rules[j].nt = nt].body

\* C15: buffer_tree(1, []) at the first token of a tree written by
\* write_tree reads as many tokens as the tree has nodes, in preorder:
\* meta_rules[i] is the body of the nonterminal coded first_meta_rule + i, the
\* start production is the tree after the last body, and no byte is left.
C15_PreorderFraming ==
    HeaderRead =>
        /\ dec.buffered
        /\ Len(dec.meta_rules) = Len(tr_rules)
        /\ \A i \in 1..Len(tr_rules) :
               LET body == BodyOf(codes[dec.first_meta_rule + i])
               IN /\ dec.meta_rules[i] = CodesInPreOrder(body)
                  /\ Len(dec.meta_rules[i]) = TreeSize(body)
        /\ dec.start_production = CodesInPreOrder(tr_tree)
        /\ Len(dec.start_production) = TreeSize(tr_tree)
        /\ rpos = Len(out) + 1

\* Two bodies and a start tree of several nodes have been buffered
C15_Witness ==
    /\ HeaderRead /\ dec.buffered
    /\ Len(dec.meta_rules) >= 2
    /\ Len(dec.meta_rules[1]) >= 3
    /\ Len(dec.start_production) >= 5

\* The symbols of one class in the order of their codes
SymbolsOfClass(c) == SelectSeq(codes, LAMBDA s : s[1] = c)

\* The tokens write_tree writes for the bodies in code order and the start tree
TreeTokens ==
    LET first == Cardinality(CodesOfClass(codes, {"param"})) + 6
    IN ConcatAll([i \in 1..(Len(tr_rules) + 1) |->
           IF i <= Len(tr_rules) THEN CodesInPreOrder(BodyOf(codes[first + i]))
           ELSE CodesInPreOrder(tr_tree)])

\* C16: the output is, in this order, the length and the bytes of the grammar
\* JSON, P, 6, the rank histogram, S, the S lengths, the string bytes, F, the F
\* doubles, the body of every meta-rule and the start tree; the grammar is
\* written before anything else, every tree token lies after the last header
\* field, and the decoder's fields are the ones read in this order.
C16_HeaderBeforeBody ==
    /\ pc \in {"apply", "mine"} => out = GrammarBytes(JsonStringify(grammar))
    /\ OutputWritten =>
           LET len == ReadVarUint(out, 1)
               src == ReadBytes(out, len.pos, len.v)
               pb == ReadVarUints(out, src.pos, 2, <<>>)
               nr == ReadVarUint(out, pb.pos)
               hist == ReadVarUints(out, nr.pos, 1 + 2 * nr.v, <<>>)
               ns == ReadVarUint(out, hist.pos)
               lens == ReadVarUints(out, ns.pos, ns.v, <<>>)
               strs == ReadStrings(out, lens.pos, lens.vs, <<>>)
               nf == ReadVarUint(out, strs.pos)
               nums == ReadFloats(out, nf.pos, nf.v, <<>>)
               trees == ReadVarUints(out, nums.pos, Len(TreeTokens), <<>>)
               ss == SymbolsOfClass("str")
               fs == SymbolsOfClass("num")
           IN /\ len.ok /\ src.ok /\ pb.ok /\ nr.ok /\ hist.ok /\ ns.ok
              /\ lens.ok /\ strs.ok /\ nf.ok /\ nums.ok /\ trees.ok
              /\ src.bs = JsonStringify(grammar)
              /\ pb.vs = <<Cardinality(CodesOfClass(codes, {"param"})), 6>>
              /\ nr.v = Cardinality(RuleRanks \cup {0}) - 1
              /\ hist.vs[1] = RulesOfRank(0)
              /\ ns.v = Len(ss)
              /\ lens.vs = [i \in 1..Len(ss) |-> Len(Utf8Encode(ss[i][2]))]
              /\ strs.strs = [i \in 1..Len(ss) |-> ss[i][2]]
              /\ nf.v = Len(fs)
              /\ nums.nums = [i \in 1..Len(fs) |-> fs[i][2]]
              /\ trees.vs = TreeTokens
              /\ trees.pos = Len(out) + 1
              /\ pc # "encoded" => dgrammar = grammar /\ derr # "Truncated"
              /\ HeaderRead =>
                     /\ dec.num_parameters = pb.vs[1]
                     /\ dec.num_meta_rules = Len(tr_rules)
                     /\ dec.string_constants = strs.strs
                     /\ dec.numeric_constants = nums.nums
                     /\ dec.buffered
                     /\ dec.meta_rules \o <<dec.start_production>>
                            = BufferRules(dec, out, nums.pos, Len(tr_rules) + 1, <<>>).bufs

\* Strings, numbers and a meta-rule have been written and read
C16_Witness ==
    /\ HeaderRead
    /\ dec.num_string_constants >= 1
    /\ dec.num_numeric_constants >= 1
    /\ dec.num_meta_rules >= 1

\* The bytes the stream holds: its full chunks, then the filled part of cur
Contents(s) == ConcatAll(s.priors) \o SubSeq(s.cur, 1, s.curOffset)

\* C17: after any write calls 0 <= curOffset < FIXED_SIZE, every chunk of
\* priors is full, priorSize is FIXED_SIZE times their number, size is the
\* number of bytes written and the stream holds them in order; a copy gives
\* its target exactly these bytes, returns size and leaves the stream as it was.
C17_FixedSizeBufStream ==
    StreamOpen =>
        /\ 0 <= curOffset /\ curOffset < FIXED_SIZE
        /\ \A i \in 1..Len(priors) : Len(priors[i]) = FIXED_SIZE
        /\ priorSize = FIXED_SIZE * Len(priors)
        /\ Size(ThisStream) = Len(written)
        /\ Contents(ThisStream) = written
        /\ pc \in StreamCopies =>
               /\ sink = written
               /\ bytes_written = Size(ThisStream)
               /\ bytes_written = Len(written)

\* A copy of a stream with a full chunk and a partly filled one
C17_Witness ==
    /\ pc \in StreamCopies
    /\ Len(priors) >= 1
    /\ curOffset > 0
    /\ sink = written

\* The tree the mining loop starts from, the nodes of the start tree and of
\* the production bodies together, and one turn of the loop
InitialTree == Build(script, grammar, [strs |-> <<>>, nums |-> <<>>, err |-> ""]).tree
TotalNodes ==
    TreeSize(tr_tree) + SumAll([i \in 1..Len(tr_rules) |-> TreeSize(tr_rules[i].body)])
ChosenCount == Occurrences(tr_tree, dorder[BestDigram(tr_tree, dorder)], FALSE)
MiningTurn == pc = "mine" /\ pc' = "mine" /\ Len(tr_rules') = Len(tr_rules) + 1
Mining == pc \in {"mine", "encoded", "grammar_decoded", "decoded", "decode_failed"}

\* C18: every turn of the mining loop replaces c >= 2 occurrences and lowers
\* the node count of the start tree and the production bodies together by
\* c - 1, and the loop takes at most as many turns as the initial tree has nodes.
C18_Termination ==
    /\ [][MiningTurn =>
              /\ ChosenCount >= 2
              /\ TotalNodes' = TotalNodes - (ChosenCount - 1)]_vars
    /\ [](Mining => Len(tr_rules) <= TreeSize(InitialTree))

\* C18, amended: every turn replaces c >= 2 occurrences and lowers the node
\* count of the start tree by exactly c, while the body it adds has
\* 2 + rank(N) nodes; the turns taken, counted twice, and the nodes left in the
\* start tree are never more than the nodes of the initial tree.
C18_StartTreeShrinks ==
    /\ [][MiningTurn =>
              /\ ChosenCount >= 2
              /\ TreeSize(tr_tree') = TreeSize(tr_tree) - ChosenCount
              /\ TotalNodes' = TotalNodes - ChosenCount
                                   + 2 + tr_rules'[Len(tr_rules')].nt[2].rank]_vars
    /\ [](Mining => TreeSize(tr_tree) + 2 * Len(tr_rules) <= TreeSize(InitialTree))

\* Two turns have been taken and the nodes together are more than at the start
C18_Witness ==
    /\ pc = "mine"
    /\ Len(tr_rules) >= 2
    /\ TotalNodes > TreeSize(InitialTree)
    /\ TreeSize(tr_tree) < TreeSize(InitialTree)

====
